---- MODULE Spec2Model ----
\* A model of cpass: the password generator (package generator), its entropy
\* estimator, and the part of main that owns the generated buffer.
EXTENDS Integers, Sequences, FiniteSets, TLC

\* ---------------------------------------------------------------- bounds

\* Largest password length the generation runs are explored for.
MaxLen == 3
\* Largest in-range class count offered as an input.
MaxCnt == 1
\* Largest length / class count the entropy estimator is explored for.
MaxEntLen == 15
MaxEntCnt == 3

\* ------------------------------------------------------ program constants

\* generator: the length limit of NewGenerator.
MaxLength == 128
\* generator: the attempt cap of the inner loop of seekNonBaseLetterAndApply.
MaxAttempts == 100000

\* A pointer or slice that may be nil: Nil, or Some(x) holding x.
Nil == << >>
Some(x) == << x >>

\* --------------------------------------------------------------- charsets
\* Strings are sequences of byte values (ASCII codes).

\* "abcdefghijkmnpqrstuvwxyz"
letterCharset ==
    << 97, 98, 99, 100, 101, 102, 103, 104, 105, 106, 107, 109, 110,
       112, 113, 114, 115, 116, 117, 118, 119, 120, 121, 122 >>

\* "0123456789"
digitCharset == << 48, 49, 50, 51, 52, 53, 54, 55, 56, 57 >>

\* "~!@#$%^&*_+[]/?<>."
specialCharset ==
    << 126, 33, 64, 35, 36, 37, 94, 38, 42, 95, 43, 91, 93, 47, 63, 60, 62, 46 >>

Range(s) == { s[k] : k \in 1..Len(s) }

\* strings.Contains(charset, string(char)) for a one-byte ASCII string.
Contains(charset, char) == char \in Range(charset)

\* unicode.ToUpper on a byte: ASCII lowercase letters move down by 32,
\* everything else the generator handles is left alone.
ToUpper(char) == IF char >= 97 /\ char <= 122 THEN char - 32 ELSE char

\* The uppercase forms of the letters of letterCharset.
UpperLetters == { ToUpper(c) : c \in Range(letterCharset) }

\* ---------------------------------------------------------------- uint32
\* A uint32 is kept as two 16-bit halves, so that sums wrap exactly as the
\* machine's do.

U32(n) == [hi |-> n \div 65536, lo |-> n % 65536]

U32Add(a, c) ==
    LET s == a.lo + c.lo
    IN  [lo |-> s % 65536, hi |-> (a.hi + c.hi + (s \div 65536)) % 65536]

U32Gt(a, c) == a.hi > c.hi \/ (a.hi = c.hi /\ a.lo > c.lo)

\* i < count, for a loop counter i that stays below 2^16.
LessThanCount(k, count) == count.hi > 0 \/ k < count.lo

\* The value of a uint32 known to be below 2^16.
Small(a) == a.lo

\* The sum of three uint32 values without wrap-around, as <<high, u32>>
\* (value = high * 2^32 + u32).
WideSum3(a, c, d) ==
    LET lo == a.lo + c.lo + d.lo
        hi == a.hi + c.hi + d.hi + (lo \div 65536)
    IN  [high |-> hi \div 65536, low |-> [hi |-> hi % 65536, lo |-> lo % 65536]]

WideGt(w, a) == w.high > 0 \/ U32Gt(w.low, a)

\* ---------------------------------------------------------------- big.Int
\* A non-negative big.Int is the sequence of its base-2^10 limbs, least
\* significant first, without leading zero limbs (zero is the empty sequence).
\* The operators below are exact integer arithmetic on that representation.

MaxOf(S) == CHOOSE m \in S : \A k \in S : k <= m
MinOf(S) == CHOOSE m \in S : \A k \in S : m <= k

\* Drop the leading (most significant) zero limbs.
Strip(v) ==
    LET nz == { k \in 1..Len(v) : v[k] # 0 }
    IN  IF nz = {} THEN << >> ELSE SubSeq(v, 1, MaxOf(nz))

\* One round of carries: every limb keeps its low 10 bits and hands the
\* rest to the next limb.
CarryPass(v) ==
    [k \in 1..(Len(v) + 1) |->
        (IF k <= Len(v) THEN v[k] % 1024 ELSE 0)
        + (IF k > 1 THEN v[k - 1] \div 1024 ELSE 0)]

RECURSIVE Carry(_)
Carry(v) ==
    IF \A k \in 1..Len(v) : v[k] < 1024
    THEN Strip(v)
    ELSE Carry(Strip(CarryPass(v)))

\* The sum of f[lo..hi], by halving.
RECURSIVE SumRange(_, _, _)
SumRange(f, lo, hi) ==
    IF lo > hi THEN 0
    ELSE IF lo = hi THEN f[lo]
    ELSE LET mid == (lo + hi) \div 2
         IN  SumRange(f, lo, mid) + SumRange(f, mid + 1, hi)

\* big.Int.Mul: the column sums of the schoolbook product, then the carries.
BigMul(x, y) ==
    IF x = << >> \/ y = << >> THEN << >>
    ELSE LET col(k) ==
                 LET lo == IF k + 1 - Len(y) > 1 THEN k + 1 - Len(y) ELSE 1
                     hi == IF k < Len(x) THEN k ELSE Len(x)
                     terms == [t \in lo..hi |-> x[t] * y[k + 1 - t]]
                 IN  SumRange(terms, lo, hi)
         IN  Carry([k \in 1..(Len(x) + Len(y)) |-> col(k)])

\* big.NewInt(0).SetUint64(v), for v below 2^31.
BigOfSmall(v) == Carry(<< v >>)

\* big.Int.Exp(x, y, 0) = x**y for a small base x, by square and multiply.
RECURSIVE BigExp(_, _)
BigExp(x, y) ==
    IF y = 0 THEN << 1 >>
    ELSE LET h  == BigExp(x, y \div 2)
             sq == BigMul(h, h)
         IN  IF y % 2 = 1 THEN BigMul(sq, BigOfSmall(x)) ELSE sq

\* big.Int.Sub(x, 1) for x >= 1: borrow through the low zero limbs.
BigSubOne(x) ==
    LET j == MinOf({ k \in 1..Len(x) : x[k] # 0 })
    IN  Strip([k \in 1..Len(x) |->
                 IF k < j THEN 1023 ELSE IF k = j THEN x[k] - 1 ELSE x[k]])

RECURSIVE LimbBits(_)
LimbBits(v) == IF v = 0 THEN 0 ELSE 1 + LimbBits(v \div 2)

\* big.Int.BitLen
BitLen(x) == IF x = << >> THEN 0 ELSE 10 * (Len(x) - 1) + LimbBits(x[Len(x)])

\* ------------------------------------------------------------- the state

VARIABLES
    pc,           \* where the program is
    input,        \* main: pwLen, uppercaseCount, digitCount, specialCount
    g,            \* the *Generator, or Nil
    b,            \* Generate: the slice being built
    i,            \* the counter of the loop that is running
    ii,           \* seekNonBaseLetterAndApply: the attempt counter
    err,          \* the error the run ended with, "none" while there is none
    ret,          \* main: the slice Generate returned, Nil while there is none
    draws,        \* position draws (rand.Int calls that returned) so far
    failedReads,  \* reads of the entropy source that failed inside Generate
    lastCharset,  \* the charset of the latest secureRandomChar call
    printed,      \* the password main printed, Nil while nothing is printed
    entropyMax, entropyMin, entropyAvg2, rating,  \* main: the report
    wiped,        \* per byte of ret, what the clean-up has written to it
    cleanFailed   \* main: the clean-up's rand.Read returned an error

vars == << pc, input, g, b, i, ii, err, ret, draws, failedReads, lastCharset,
           printed, entropyMax, entropyMin, entropyAvg2, rating, wiped,
           cleanFailed >>

genVars == << b, i, ii, draws, failedReads, lastCharset >>
reportVars == << printed, entropyMax, entropyMin, entropyAvg2, rating >>
cleanVars == << wiped, cleanFailed >>

\* --------------------------------------------------------------- inputs

\* A uint32 count that makes the sum of the counts wrap: 2^32 - 1.
HugeCounts == { [hi |-> 65535, lo |-> 65535] }

InputLengths ==
    { U32(n) : n \in 0..MaxLen } \cup { U32(MaxLength + 1), [hi |-> 1, lo |-> 1] }

InputCounts == { U32(n) : n \in 0..MaxCnt }

\* The wrapping count is offered for the class of the first pass.
Inputs ==
    [length : InputLengths, uppercaseCount : InputCounts \cup HugeCounts,
     digitCount : InputCounts, specialCount : InputCounts]

\* The values the selected SHA-512 byte takes in the explored runs.
HashBytes == { 0, 255 }

\* The byte values the clean-up's rand.Read writes in the explored runs.
RefillBytes == { 97, 255 }

\* ------------------------------------------------------------ generator

\* NewGenerator: TRUE when it returns a generator, FALSE when an error.
NewGenerator(length, uppercaseCount, digitCount, specialCount) ==
    /\ ~U32Gt(length, U32(MaxLength))
    /\ ~U32Gt(U32Add(U32Add(uppercaseCount, digitCount), specialCount), length)

\* secureRandomChar, given the byte secureRandomByte returned:
\* charset[b % byte(len(charset))].
CharIndex(charset, byte) == byte % Len(charset)
secureRandomChar(charset, byte) == charset[CharIndex(charset, byte) + 1]

\* The test of seekNonBaseLetterAndApply that a position is still free:
\* strings.Contains(letterCharset, string(char)).
\* (Faulty variant: every position counts as free.)
IsBaseLetterAny(char) == TRUE
IsBaseLetter(char) == Contains(letterCharset, char)

\* The condition of the attempt loop, without the !ok part: ii < 100000.
\* (Faulty variant: one attempt too many.)
AttemptsLeftOffByOne(n) == n <= MaxAttempts
AttemptsLeft(n) == n < MaxAttempts

\* The generator g points to, and the bytes of main's slice.
gen == g[1]
buf == ret[1]

Passes == { "applyUppercase", "applyDigits", "applySpecial" }

\* The number of substitutions of a pass.
\* (Faulty variant: applyDigits passes the uppercase count.)
PassCountCopied(p) ==
    CASE p = "applyUppercase" -> gen.uppercaseCount
      [] p = "applyDigits"    -> gen.uppercaseCount
      [] p = "applySpecial"   -> gen.specialCount
PassCount(p) ==
    CASE p = "applyUppercase" -> gen.uppercaseCount
      [] p = "applyDigits"    -> gen.digitCount
      [] p = "applySpecial"   -> gen.specialCount

AfterPass(p) ==
    CASE p = "applyUppercase" -> "applyDigits"
      [] p = "applyDigits"    -> "applySpecial"
      [] p = "applySpecial"   -> "report"

PassCharset(p) ==
    CASE p = "applyDigits"  -> digitCharset
      [] p = "applySpecial" -> specialCharset

\* Generate's error return: return nil, errors.Wrap(err, ...).
\* (Faulty variant: the slice is returned along with the error.)
GenerateFailsLeaky(kind) ==
    /\ err' = kind
    /\ ret' = Some(b)
    /\ pc' = "exit"
GenerateFails(kind) ==
    /\ err' = kind
    /\ ret' = Nil
    /\ pc' = "exit"

\* The substitution loop is at an iteration: i < count.
InSeek == pc \in Passes /\ LessThanCount(i, PassCount(pc))

Init ==
    /\ pc = "main"
    /\ input \in Inputs
    /\ g = Nil
    /\ b = << >>
    /\ i = 0
    /\ ii = 0
    /\ err = "none"
    /\ ret = Nil
    /\ draws = 0
    /\ failedReads = 0
    /\ lastCharset = << >>
    /\ printed = Nil
    /\ entropyMax = 0
    /\ entropyMin = 0
    /\ entropyAvg2 = 0
    /\ rating = ""
    /\ wiped = << >>
    /\ cleanFailed = FALSE

\* main: g, err := generator.NewGenerator(...); on error, exit(1).
MainNewGenerator ==
    /\ pc = "main"
    /\ IF NewGenerator(input.length, input.uppercaseCount,
                       input.digitCount, input.specialCount)
       THEN /\ g' = Some(input)
            /\ pc' = "generate"
            /\ err' = err
       ELSE /\ g' = Nil
            /\ pc' = "exit"
            /\ err' = "validation"
    /\ UNCHANGED << input, ret >>
    /\ UNCHANGED genVars
    /\ UNCHANGED reportVars
    /\ UNCHANGED cleanVars

\* generateBase: ret := make([]byte, g.length).
GenerateBaseMake ==
    /\ pc = "generate"
    /\ b' = [k \in 1..Small(gen.length) |-> 0]
    /\ i' = 0
    /\ pc' = "generateBase"
    /\ UNCHANGED << input, g, ii, err, ret, draws, failedReads, lastCharset >>
    /\ UNCHANGED reportVars
    /\ UNCHANGED cleanVars

\* generateBase: one iteration whose secureRandomChar succeeds.
GenerateBaseStep ==
    /\ pc = "generateBase"
    /\ LessThanCount(i, gen.length)
    /\ \E byte \in HashBytes :
          b' = [b EXCEPT ![i + 1] = secureRandomChar(letterCharset, byte)]
    /\ i' = i + 1
    /\ lastCharset' = letterCharset
    /\ UNCHANGED << pc, input, g, ii, err, ret, draws, failedReads >>
    /\ UNCHANGED reportVars
    /\ UNCHANGED cleanVars

\* generateBase: one iteration whose secureRandomChar fails (either read of
\* secureRandomByte); Generate returns nil and the wrapped error.
GenerateBaseFail ==
    /\ pc = "generateBase"
    /\ LessThanCount(i, gen.length)
    /\ lastCharset' = letterCharset
    /\ failedReads' = failedReads + 1
    /\ GenerateFails("entropy")
    /\ UNCHANGED << input, g, b, i, ii, draws >>
    /\ UNCHANGED reportVars
    /\ UNCHANGED cleanVars

\* generateBase returns; Generate calls applyUppercase.
GenerateBaseDone ==
    /\ pc = "generateBase"
    /\ ~LessThanCount(i, gen.length)
    /\ pc' = "applyUppercase"
    /\ i' = 0
    /\ ii' = 0
    /\ UNCHANGED << input, g, b, err, ret, draws, failedReads, lastCharset >>
    /\ UNCHANGED reportVars
    /\ UNCHANGED cleanVars

\* --- seekNonBaseLetterAndApply(ptr, count, applyFn), once per pass -------

\* A miss is an iteration of the attempt loop whose rand.Int returns a
\* position that no longer holds a base letter: it changes nothing but ii.
\* The first and the last miss of a substitution are followed one at a time,
\* the MaxAttempts - 2 iterations between them as one run of misses.
MissRuns(n) ==
    IF n = 0 \/ n >= MaxAttempts - 1
    THEN { 1 }
    ELSE IF n = 1 THEN { MaxAttempts - 2 } ELSE { }

SeekMiss ==
    /\ InSeek
    /\ AttemptsLeft(ii)
    /\ \E pos \in 1..Small(gen.length) : ~IsBaseLetter(b[pos])
    /\ \E n \in MissRuns(ii) :
          /\ ii' = ii + n
          /\ draws' = draws + n
    /\ UNCHANGED << pc, input, g, b, i, err, ret, failedReads, lastCharset >>
    /\ UNCHANGED reportVars
    /\ UNCHANGED cleanVars

\* applyUppercase's applyFn: byte(unicode.ToUpper(rune(b))).
\* (Faulty variant: the letter is written back unchanged.)
ApplyUppercaseIdentity(char) == char
ApplyUppercase(char) == ToUpper(char)

\* An iteration whose position holds a base letter and whose applyFn
\* succeeds: the byte is replaced, ok is set, the attempt loop ends and the
\* outer loop moves to the next substitution.
SeekHit ==
    /\ InSeek
    /\ AttemptsLeft(ii)
    /\ \E pos \in 1..Small(gen.length) :
          /\ IsBaseLetter(b[pos])
          /\ IF pc = "applyUppercase"
             THEN /\ b' = [b EXCEPT ![pos] = ApplyUppercase(b[pos])]
                  /\ lastCharset' = lastCharset
             ELSE /\ \E byte \in HashBytes :
                        b' = [b EXCEPT ![pos] = secureRandomChar(PassCharset(pc), byte)]
                  /\ lastCharset' = PassCharset(pc)
    /\ i' = i + 1
    /\ ii' = 0
    /\ draws' = draws + 1
    /\ UNCHANGED << pc, input, g, err, ret, failedReads >>
    /\ UNCHANGED reportVars
    /\ UNCHANGED cleanVars

\* An iteration whose position holds a base letter and whose applyFn fails
\* (secureRandomChar of applyDigits / applySpecial): "call apply func".
SeekApplyFail ==
    /\ InSeek
    /\ AttemptsLeft(ii)
    /\ pc # "applyUppercase"
    /\ \E pos \in 1..Small(gen.length) : IsBaseLetter(b[pos])
    /\ lastCharset' = PassCharset(pc)
    /\ draws' = draws + 1
    /\ failedReads' = failedReads + 1
    /\ GenerateFails("entropy")
    /\ UNCHANGED << input, g, b, i, ii >>
    /\ UNCHANGED reportVars
    /\ UNCHANGED cleanVars

\* An iteration whose rand.Int returns an error.
SeekDrawFail ==
    /\ InSeek
    /\ AttemptsLeft(ii)
    /\ gen.length # U32(0)
    /\ failedReads' = failedReads + 1
    /\ GenerateFails("entropy")
    /\ UNCHANGED << input, g, b, i, ii, draws, lastCharset >>
    /\ UNCHANGED reportVars
    /\ UNCHANGED cleanVars

\* An iteration with gen.length = 0: rand.Int panics on a bound <= 0, and the
\* process dies with neither a buffer nor an error returned.
SeekPanic ==
    /\ InSeek
    /\ AttemptsLeft(ii)
    /\ gen.length = U32(0)
    /\ err' = "panic"
    /\ pc' = "exit"
    /\ UNCHANGED << input, g, ret >>
    /\ UNCHANGED genVars
    /\ UNCHANGED reportVars
    /\ UNCHANGED cleanVars

\* The attempt loop ended with ok still false: the anti-deadlock error.
SeekExhausted ==
    /\ InSeek
    /\ ~AttemptsLeft(ii)
    /\ GenerateFails("antideadlock")
    /\ UNCHANGED << input, g >>
    /\ UNCHANGED genVars
    /\ UNCHANGED reportVars
    /\ UNCHANGED cleanVars

\* The outer loop ended: the pass returns nil; Generate calls the next
\* pass, or after applySpecial returns b, nil.
PassDone ==
    /\ pc \in Passes
    /\ ~LessThanCount(i, PassCount(pc))
    /\ pc' = AfterPass(pc)
    /\ i' = 0
    /\ ii' = 0
    /\ IF pc = "applySpecial"
       THEN /\ ret' = Some(b)
            /\ wiped' = [k \in 1..Len(b) |-> << >>]
       ELSE UNCHANGED << ret, wiped >>
    /\ UNCHANGED << input, g, b, err, draws, failedReads, lastCharset, cleanFailed >>
    /\ UNCHANGED reportVars

\* ------------------------------------------------------ entropy estimator

\* uint64(count) of a count below 2^16, which is every count the estimator
\* is reached with.
Exponent(count) == Small(count)

\* EntropyMax: the bit length of possibleChars ** length - 1.
\* (Faulty variant: the pool does not start with one.)
EntropyMaxNoEmptySlot(gr) ==
    LET possibleChars ==
            Len(letterCharset)
            + (IF gr.uppercaseCount # U32(0) THEN Len(letterCharset) ELSE 0)
            + (IF gr.digitCount # U32(0) THEN Len(digitCharset) ELSE 0)
            + (IF gr.specialCount # U32(0) THEN Len(specialCharset) ELSE 0)
    IN  BitLen(BigSubOne(BigExp(possibleChars, Exponent(gr.length))))
EntropyMax(gr) ==
    LET possibleChars ==
            1 + Len(letterCharset)
            + (IF gr.uppercaseCount # U32(0) THEN Len(letterCharset) ELSE 0)
            + (IF gr.digitCount # U32(0) THEN Len(digitCharset) ELSE 0)
            + (IF gr.specialCount # U32(0) THEN Len(specialCharset) ELSE 0)
    IN  BitLen(BigSubOne(BigExp(possibleChars, Exponent(gr.length))))

\* addPossibleCombinationsFn of EntropyMin: the factor of one class.
ClassCombinations(charset, count) == BigExp(1 + Len(charset), count)

\* EntropyMin: [failed, bits]; bits is the bit length of the product of the
\* classes' factors, minus one.
\* (Faulty variant: the factor of the digits is left out.)
EntropyMinNoDigits(gr) ==
    LET nonBaseCount ==
            U32Add(U32Add(gr.uppercaseCount, gr.digitCount), gr.specialCount)
        baseChars == Small(gr.length) - Small(nonBaseCount)
        possibleCombinations ==
            BigMul(BigMul(BigMul(<< 1 >>,
                ClassCombinations(letterCharset, baseChars)),
                ClassCombinations(letterCharset, Exponent(gr.uppercaseCount))),
                ClassCombinations(specialCharset, Exponent(gr.specialCount)))
    IN  IF U32Gt(nonBaseCount, gr.length)
        THEN [failed |-> TRUE, bits |-> 0]
        ELSE [failed |-> FALSE, bits |-> BitLen(BigSubOne(possibleCombinations))]
EntropyMin(gr) ==
    LET nonBaseCount ==
            U32Add(U32Add(gr.uppercaseCount, gr.digitCount), gr.specialCount)
        baseChars == Small(gr.length) - Small(nonBaseCount)
        possibleCombinations ==
            BigMul(BigMul(BigMul(BigMul(<< 1 >>,
                ClassCombinations(letterCharset, baseChars)),
                ClassCombinations(letterCharset, Exponent(gr.uppercaseCount))),
                ClassCombinations(digitCharset, Exponent(gr.digitCount))),
                ClassCombinations(specialCharset, Exponent(gr.specialCount)))
    IN  IF U32Gt(nonBaseCount, gr.length)
        THEN [failed |-> TRUE, bits |-> 0]
        ELSE [failed |-> FALSE, bits |-> BitLen(BigSubOne(possibleCombinations))]

\* getRatingString, on twice the float64 it is given: entropyAvg is a sum of
\* two integers halved, so its double is the exact integer twice == 2 * bits.
getRatingString(twice) ==
    CASE twice <= 2 * 32  -> "Very Poor"
      [] twice > 2 * 32 /\ twice <= 2 * 48   -> "Poor"
      [] twice > 2 * 48 /\ twice <= 2 * 72   -> "Weak"
      [] twice > 2 * 72 /\ twice <= 2 * 96   -> "Good"
      [] twice > 2 * 96 /\ twice <= 2 * 120  -> "Excellent"
      [] OTHER -> "Overkill"

\* main: entropyMax, entropyMin (exit(1) on its error), entropyAvg, the
\* rating and the Printf; `then` is the place the program goes on from and
\* `shown` what has been printed of the password by then.
Report(then, shown) ==
    LET mx == EntropyMax(gen)
        mn == EntropyMin(gen)
    IN  IF mn.failed
        THEN /\ err' = "entropymin"
             /\ pc' = "exit"
             /\ UNCHANGED reportVars
        ELSE /\ entropyMax' = mx
             /\ entropyMin' = mn.bits
             /\ entropyAvg2' = mx + mn.bits
             /\ rating' = getRatingString(mx + mn.bits)
             /\ pc' = then
             /\ err' = err
             /\ printed' = shown

\* ------------------------------------------------- main, after Generate

\* main: the entropy report and the Printf of string(b).
MainReport ==
    /\ pc = "report"
    /\ Report("cleanZero", Some(buf))
    /\ i' = 0
    /\ UNCHANGED << input, g, b, ii, ret, draws, failedReads, lastCharset >>
    /\ UNCHANGED cleanVars

\* The condition of the clean-up loop: i < len(b).
\* (Faulty variant: the last byte is skipped.)
ZeroLoopRunsShort(k, n) == k < n - 1
ZeroLoopRuns(k, n) == k < n

\* main: one iteration of the clean-up loop, b[i] = 0.
MainZeroStep ==
    /\ pc = "cleanZero"
    /\ ZeroLoopRuns(i, Len(buf))
    /\ ret' = Some([buf EXCEPT ![i + 1] = 0])
    /\ wiped' = [wiped EXCEPT ![i + 1] = Append(@, "zero")]
    /\ i' = i + 1
    /\ UNCHANGED << pc, input, g, b, ii, err, draws, failedReads, lastCharset,
                    cleanFailed >>
    /\ UNCHANGED reportVars

\* main: _, _ = rand.Read(b), then the return of main. rand.Read is
\* io.ReadFull on the entropy source: it fills the first n bytes and returns
\* an error when n < len(b); main discards both results.
MainRandRead ==
    /\ pc = "cleanZero"
    /\ ~ZeroLoopRuns(i, Len(buf))
    /\ \E n \in 0..Len(buf) :
          /\ \E fill \in [1..n -> RefillBytes] :
                ret' = Some([k \in 1..Len(buf) |-> IF k <= n THEN fill[k] ELSE buf[k]])
          /\ wiped' = [k \in 1..Len(buf) |->
                          IF k <= n THEN Append(wiped[k], "random") ELSE wiped[k]]
          /\ cleanFailed' = (n < Len(buf))
    /\ pc' = "exit"
    /\ UNCHANGED << input, g, b, i, ii, err, draws, failedReads, lastCharset >>
    /\ UNCHANGED reportVars

\* The steps of one call of Generate.
GenerateNext ==
    \/ GenerateBaseMake
    \/ GenerateBaseStep
    \/ GenerateBaseFail
    \/ GenerateBaseDone
    \/ SeekMiss
    \/ SeekHit
    \/ SeekApplyFail
    \/ SeekDrawFail
    \/ SeekPanic
    \/ SeekExhausted
    \/ PassDone

Next ==
    \/ MainNewGenerator
    \/ GenerateNext
    \/ MainReport
    \/ MainZeroStep
    \/ MainRandRead

Spec == Init /\ [][Next]_vars

\* The program is sequential and every call Generate makes returns: while
\* Generate has a step to take, it takes one.
FairSpec == Spec /\ WF_vars(GenerateNext)

\* ------------------------------------- the estimator on its own inputs

EntropyLengths ==
    { U32(n) : n \in 0..MaxEntLen } \cup { U32(MaxLength), U32(MaxLength + 1) }

EntropyCounts == { U32(n) : n \in 0..MaxEntCnt }

EntropyInputs ==
    [length : EntropyLengths, uppercaseCount : EntropyCounts,
     digitCount : EntropyCounts, specialCount : EntropyCounts]

EntropyInit ==
    /\ pc = "estimate"
    /\ input \in EntropyInputs
    /\ g = Nil
    /\ b = << >>
    /\ i = 0
    /\ ii = 0
    /\ err = "none"
    /\ ret = Nil
    /\ draws = 0
    /\ failedReads = 0
    /\ lastCharset = << >>
    /\ printed = Nil
    /\ entropyMax = 0
    /\ entropyMin = 0
    /\ entropyAvg2 = 0
    /\ rating = ""
    /\ wiped = << >>
    /\ cleanFailed = FALSE

\* NewGenerator on the drawn parameters.
EstimateNewGenerator ==
    /\ pc = "estimate"
    /\ IF NewGenerator(input.length, input.uppercaseCount,
                       input.digitCount, input.specialCount)
       THEN /\ g' = Some(input)
            /\ pc' = "estimateReport"
            /\ err' = err
       ELSE /\ g' = Nil
            /\ pc' = "exit"
            /\ err' = "validation"
    /\ UNCHANGED << input, ret >>
    /\ UNCHANGED genVars
    /\ UNCHANGED reportVars
    /\ UNCHANGED cleanVars

\* EntropyMax, EntropyMin, the caller's average and its rating.
EstimateReport ==
    /\ pc = "estimateReport"
    /\ Report("exit", printed)
    /\ UNCHANGED << input, g, ret >>
    /\ UNCHANGED genVars
    /\ UNCHANGED cleanVars

EntropyNext == EstimateNewGenerator \/ EstimateReport

EntropySpec == EntropyInit /\ [][EntropyNext]_vars

\* ================================================================ claims

\* A config as the specification describes a valid one: length <= 128 and
\* the sum of the three counts, taken without wrap-around, <= length.
ValidConfig(cfg) ==
    /\ ~U32Gt(cfg.length, U32(MaxLength))
    /\ ~WideGt(WideSum3(cfg.uppercaseCount, cfg.digitCount, cfg.specialCount),
               cfg.length)

Lower == Range(letterCharset)
Upper == UpperLetters
Digits == Range(digitCharset)
Specials == Range(specialCharset)
Classes == { Lower, Upper, Digits, Specials }

CountIn(seq, S) == Cardinality({ k \in 1..Len(seq) : seq[k] \in S })

ExampleConfig ==
    [length |-> U32(14), uppercaseCount |-> U32(2),
     digitCount |-> U32(1), specialCount |-> U32(1)]

InGenerate == pc \in ({ "generate", "generateBase" } \cup Passes)

\* C1: whenever Generate returns a buffer, it has exactly `length` bytes,
\* every byte lies in exactly one of the four pairwise disjoint classes
\* (24 lowercase, 24 uppercase, 10 digits, 18 specials), and the numbers of
\* uppercase, digit and special bytes are the requested counts, the rest
\* being lowercase.
C1_ClassCounts ==
    pc = "report" =>
        /\ ret # Nil
        /\ Len(buf) = Small(gen.length)
        /\ Cardinality(Lower) = 24 /\ Cardinality(Upper) = 24
        /\ Cardinality(Digits) = 10 /\ Cardinality(Specials) = 18
        /\ \A c1 \in Classes : \A c2 \in Classes : c1 # c2 => c1 \cap c2 = { }
        /\ \A k \in 1..Len(buf) :
              Cardinality({ c \in Classes : buf[k] \in c }) = 1
        /\ U32(CountIn(buf, Upper)) = gen.uppercaseCount
        /\ U32(CountIn(buf, Digits)) = gen.digitCount
        /\ U32(CountIn(buf, Specials)) = gen.specialCount
        /\ CountIn(buf, Lower) =
              Small(gen.length) - (Small(gen.uppercaseCount)
                  + Small(gen.digitCount) + Small(gen.specialCount))

C1_Witness ==
    /\ pc = "report"
    /\ gen.length = U32(3)
    /\ gen.uppercaseCount = U32(1)
    /\ gen.digitCount = U32(1)
    /\ gen.specialCount = U32(1)

\* C2: NewGenerator fails exactly when length > 128 or the arithmetic sum of
\* the three counts is greater than length, and succeeds otherwise.
C2_ValidationExact ==
    pc # "main" => ((g # Nil) <=> ValidConfig(input))

Hits(charset, m) ==
    Cardinality({ v \in 0..255 : CharIndex(charset, v) + 1 = m })

\* C4: for the charset of every secureRandomChar call, the index b % len is
\* within the charset and every member is selected by the same number of
\* the 256 byte values.
C4_Uniform ==
    lastCharset # << >> =>
        /\ \A v \in 0..255 : CharIndex(lastCharset, v) \in 0..(Len(lastCharset) - 1)
        /\ \A m \in 1..Len(lastCharset) : \A n \in 1..Len(lastCharset) :
              Hits(lastCharset, m) = Hits(lastCharset, n)

\* C5: for every valid config the estimator succeeds and
\* EntropyMax() >= EntropyMin().
C5_MaxAtLeastMin ==
    (pc = "exit" /\ ValidConfig(input)) =>
        /\ g # Nil
        /\ err = "none"
        /\ entropyMax >= entropyMin

C5_Witness ==
    /\ pc = "exit"
    /\ g # Nil
    /\ gen.length = U32(MaxLength)
    /\ gen.digitCount # U32(0)
    /\ entropyMax > entropyMin

\* C6: length=14, uppercaseCount=2, digitCount=1, specialCount=1 gives
\* EntropyMax 88 and EntropyMin 64 without error, realistic entropy 76 and
\* the rating "Good"; the bands have inclusive upper bounds 32, 48, 72, 96,
\* 120 and "Overkill" lies above 120.
C6_ReadmeExample ==
    (pc = "exit" /\ g # Nil) =>
        /\ input = ExampleConfig =>
              /\ err = "none"
              /\ entropyMax = 88
              /\ entropyMin = 64
              /\ entropyAvg2 = 2 * 76
              /\ rating = "Good"
        /\ err = "none" =>
              /\ rating = "Very Poor" <=> entropyAvg2 <= 2 * 32
              /\ rating = "Poor" <=> (entropyAvg2 > 2 * 32 /\ entropyAvg2 <= 2 * 48)
              /\ rating = "Weak" <=> (entropyAvg2 > 2 * 48 /\ entropyAvg2 <= 2 * 72)
              /\ rating = "Good" <=> (entropyAvg2 > 2 * 72 /\ entropyAvg2 <= 2 * 96)
              /\ rating = "Excellent" <=> (entropyAvg2 > 2 * 96 /\ entropyAvg2 <= 2 * 120)
              /\ rating = "Overkill" <=> entropyAvg2 > 2 * 120

C6_Witness ==
    /\ pc = "exit"
    /\ input = ExampleConfig
    /\ rating = "Good"

\* C7: Generate hands over either a complete buffer and no error, or an
\* error and no buffer; a failed read of the entropy source ends the call at
\* once (there is never a second read after a failed one) and no partly
\* filled or partly substituted buffer reaches the caller.
C7_AllOrNothing ==
    /\ err # "none" => (ret = Nil /\ pc = "exit")
    /\ ret # Nil => err = "none"
    /\ pc = "report" =>
          /\ ret = Some(b)
          /\ Len(b) = Small(gen.length)
          /\ \A k \in 1..Len(b) : b[k] \in UNION Classes
          /\ ~LessThanCount(CountIn(b, Upper), gen.uppercaseCount)
          /\ ~LessThanCount(CountIn(b, Digits), gen.digitCount)
          /\ ~LessThanCount(CountIn(b, Specials), gen.specialCount)
    /\ failedReads <= 1
    /\ failedReads = 1 => (err = "entropy" /\ pc = "exit" /\ ret = Nil)

C7_Witness ==
    /\ err = "entropy"
    /\ failedReads = 1
    /\ \E k \in 1..Len(b) : b[k] \in Upper
    /\ \E k \in 1..Len(b) : b[k] \in Lower

\* C8 (as claimed): in every run in which Generate returned a buffer, the
\* buffer is printed and, before the process ends, every byte is set to zero
\* and then overwritten with bytes of the entropy source.
C8_ZeroedThenRefilled ==
    (pc = "exit" /\ ret # Nil) =>
        /\ printed = Some(b)
        /\ \A k \in 1..Len(buf) : wiped[k] = << "zero", "random" >>

\* C8 (amended): the buffer is printed and every byte is set to zero before
\* the process ends; rand.Read is then called once and its result is
\* discarded: the bytes it wrote are random, the bytes it did not reach when
\* it failed stay zero, and no byte is left without having been zeroed.
C8_ZeroedThenReadAttempted ==
    /\ ret # Nil => pc \in { "report", "cleanZero", "exit" }
    /\ (pc = "exit" /\ ret # Nil) =>
          /\ printed = Some(b)
          /\ Len(wiped) = Len(buf)
          /\ \A k \in 1..Len(buf) :
                \/ wiped[k] = << "zero", "random" >>
                \/ (cleanFailed /\ wiped[k] = << "zero" >> /\ buf[k] = 0)
          /\ ~cleanFailed => \A k \in 1..Len(buf) : wiped[k] = << "zero", "random" >>

C8_Witness ==
    /\ pc = "exit"
    /\ ret # Nil
    /\ cleanFailed
    /\ Len(buf) >= 2
    /\ wiped[1] = << "zero", "random" >>
    /\ wiped[Len(buf)] = << "zero" >>

\* C9: during the class-application passes every successful substitution
\* changes exactly one position, which held a base lowercase letter, and
\* leaves the others alone; a position that no longer holds a base letter is
\* never written again; an uppercase substitution writes the uppercase form
\* of the letter that was there, a digit or special one a member of its set.
C9_Step ==
    pc \in Passes =>
        /\ Len(b') = Len(b)
        /\ \A k \in 1..Len(b) : b[k] \notin Lower => b'[k] = b[k]
        /\ i' # i + 1 => b' = b
        /\ i' = i + 1 =>
              \E pos \in 1..Len(b) :
                 /\ b[pos] \in Lower
                 /\ b'[pos] # b[pos]
                 /\ \A k \in 1..Len(b) : k # pos => b'[k] = b[k]
                 /\ pc = "applyUppercase" =>
                       (b'[pos] = b[pos] - 32 /\ b'[pos] \in Upper)
                 /\ pc = "applyDigits" => b'[pos] \in Digits
                 /\ pc = "applySpecial" => b'[pos] \in Specials

C9_Frame == [][C9_Step]_vars

C9_Witness ==
    /\ pc = "applySpecial"
    /\ i = 1
    /\ CountIn(b, Upper) = 1
    /\ CountIn(b, Digits) = 1
    /\ CountIn(b, Specials) = 1

\* C10: Generate always terminates; a substitution makes at most 100,000
\* position draws and stops at the first that hits a base letter; when all
\* 100,000 miss, Generate stops with the anti-deadlock error; one call makes
\* at most length x 3 x 100,000 position draws.
C10_DrawsBounded ==
    /\ ii <= MaxAttempts
    /\ IF g = Nil THEN draws = 0
       ELSE gen.length.hi = 0 /\ draws <= Small(gen.length) * 3 * MaxAttempts

C10_Step ==
    /\ (pc \in Passes /\ b' # b) =>
          (i' = i + 1 /\ ii' = 0 /\ draws' = draws + 1)
    /\ (InSeek /\ ii = MaxAttempts) =>
          (err' = "antideadlock" /\ pc' = "exit" /\ draws' = draws)

====
